---- MODULE Spec2Model ----
(***************************************************************************)
(* Phobos kinematic core: joint-type classification (deriveJointType),     *)
(* the constraint builder (setJointConstraints / createJoint), the         *)
(* axis/limit extractor (getJointConstraints), the kinematic tree         *)
(* restructurer (restructureKinematicTree), the common-parent finder       *)
(* (getNearestCommonParent) and removeSubmodel.                            *)
(*                                                                         *)
(* One armature object `joint` with one pose bone carries the constraint   *)
(* list `cons`; a separate set of scene objects carries the parent         *)
(* relation `parent` on which the restructurer works.                      *)
(***************************************************************************)
EXTENDS Integers, Sequences, FiniteSets, TLC

VARIABLES
    cons,        \* joint.pose.bones[0].constraints, in list order
    props,       \* the custom properties of the joint object (joint['...'])
    bone,        \* joint.data.bones[0].vector, normalized (tail - head)
    phobostype,  \* joint.phobostype
    ncreated,    \* number of createJoint calls made on the object
    last,        \* the last call made on the joint: operation, arguments, result
    pre,         \* cons / props as they were when the last call started
    log,         \* the diagnostics the last call logged
    parent,      \* obj.parent of every scene object (None for no parent)
    ptype,       \* obj.phobostype of every scene object
    meta,        \* the 'modelname' / 'version' properties of every scene object
    matrix,      \* obj.matrix_local of every scene object (pose relative to its parent)
    rk,          \* the restructureKinematicTree call in progress, or the last one
    ncp,         \* the getNearestCommonParent call: its argument and result
    groups,      \* the names of the groups in bpy.data.groups
    removed      \* the last removeSubmodel call: arguments, groups before, result

jvars == <<cons, props, bone, phobostype, ncreated, last, pre, log>>
gvars == <<groups, removed>>
tvars == <<parent, ptype, meta, matrix, rk, ncp, groups, removed>>
vars == <<cons, props, bone, phobostype, ncreated, last, pre, log,
          parent, ptype, meta, matrix, rk, ncp, groups, removed>>

-----------------------------------------------------------------------------
(* Bounds of the model *)

\* lower / upper limits are drawn from -MaxLimit .. MaxLimit
MaxLimit == 1
\* createJoint is called at most MaxCreate times on the object
MaxCreate == 1
\* the scene holds the objects 1 .. NumNodes
NumNodes == 4
\* restructureKinematicTree is called at most MaxReroots times
MaxReroots == 2
\* getNearestCommonParent is given lists of 1 .. MaxObjs objects
MaxObjs == 3
\* spring and damping are drawn from 0 .. MaxSpring
MaxSpring == 1

-----------------------------------------------------------------------------
(* Values *)

None == "None"
Absent == "absent"

JointTypes == {"fixed", "revolute", "continuous", "prismatic", "planar", "floating"}
\* a joint type string that is none of the six the builder knows
UnknownType == "ball"

Limits == (0 - MaxLimit) .. MaxLimit
Axes == {1, 2, 3}        \* x, y, z

AllTrue == <<TRUE, TRUE, TRUE>>
AllFalse == <<FALSE, FALSE, FALSE>>
Zero3 == <<0, 0, 0>>

\* sum() of a list of three booleans
Sum3(b) == (IF b[1] THEN 1 ELSE 0) + (IF b[2] THEN 1 ELSE 0) + (IF b[3] THEN 1 ELSE 0)

\* A freshly added pose-bone constraint: every flag off, every bound 0.
\* `born` tells the constraint objects apart: "new" for one the call in
\* progress created, "old" for one that was on the bone when the call started.
NewConstraint(ctype) ==
    [type |-> ctype, use_min |-> AllFalse, use_max |-> AllFalse,
     use_limit |-> AllFalse, min |-> Zero3, max |-> Zero3, born |-> "new"]

\* bpy.ops.pose.constraint_add(type=...): appends to the bone's constraints
constraint_add(cs, ctype) == Append(cs, NewConstraint(ctype))

\* the constraints as a call finds them: all of them are old
Old(cs) == [i \in DOMAIN cs |-> [cs[i] EXCEPT !.born = "old"]]

-----------------------------------------------------------------------------
(* getJointConstraint: the LAST constraint of the given type, or None *)

RECURSIVE LastIndex(_, _, _)
LastIndex(cs, ctype, i) ==
    IF i = 0 THEN 0
    ELSE IF cs[i].type = ctype THEN i ELSE LastIndex(cs, ctype, i - 1)

hasConstraint(cs, ctype) == LastIndex(cs, ctype, Len(cs)) # 0

getJointConstraint(cs, ctype) == cs[LastIndex(cs, ctype, Len(cs))]

\* attribute writes through the reference getJointConstraint returned
WriteBack(cs, ctype, c) == [cs EXCEPT ![LastIndex(cs, ctype, Len(cs))] = c]

-----------------------------------------------------------------------------
(* deriveJointType *)

\* cloc of deriveJointType: per axis, use_min and min == max
ClassifierLocked(c) ==
    <<c.use_min[1] /\ c.min[1] = c.max[1],
      c.use_min[2] /\ c.min[2] = c.max[2],
      c.use_min[3] /\ c.min[3] = c.max[3]>>

\* the bounds are not looked at: every limited axis counts
RestrictingAnyLimit(c) == <<c.use_limit[1], c.use_limit[2], c.use_limit[3]>>

\* crot of deriveJointType: per axis, use_limit and a bound that is not 0
Restricting(c) ==
    <<c.use_limit[1] /\ (c.min[1] # 0 \/ c.max[1] # 0),
      c.use_limit[2] /\ (c.min[2] # 0 \/ c.max[2] # 0),
      c.use_limit[3] /\ (c.min[3] # 0 \/ c.max[3] # 0)>>

\* `elif ncrot == 2` written as a plain `else`: no fallback to 'floating'
DerivedTypeNoFallback(cs) ==
    LET hasLoc == hasConstraint(cs, "LIMIT_LOCATION")
        hasRot == hasConstraint(cs, "LIMIT_ROTATION")
        ncloc  == IF hasLoc THEN Sum3(ClassifierLocked(getJointConstraint(cs, "LIMIT_LOCATION")))
                  ELSE -1
        ncrot  == IF hasRot THEN Sum3(getJointConstraint(cs, "LIMIT_ROTATION").use_limit)
                  ELSE -1
    IN  IF hasLoc
        THEN IF ncloc = 3
             THEN IF ncrot = 3
                  THEN IF Sum3(Restricting(getJointConstraint(cs, "LIMIT_ROTATION"))) > 0
                       THEN "revolute" ELSE "fixed"
                  ELSE "continuous"
             ELSE IF ncloc = 2 THEN "prismatic"
             ELSE IF ncloc = 1 THEN "planar"
             ELSE "floating"
        ELSE "floating"

\* The loop over the constraints keeps the last LIMIT_LOCATION and the last
\* LIMIT_ROTATION it meets; then the count-based decision.
\* crot = <<>> stands for crot = None.
DerivedType(cs) ==
    LET hasLoc == hasConstraint(cs, "LIMIT_LOCATION")
        hasRot == hasConstraint(cs, "LIMIT_ROTATION")
        cloc   == IF hasLoc THEN ClassifierLocked(getJointConstraint(cs, "LIMIT_LOCATION"))
                  ELSE <<>>
        crot   == IF hasRot THEN Restricting(getJointConstraint(cs, "LIMIT_ROTATION"))
                  ELSE <<>>
        ncloc  == IF hasLoc THEN Sum3(cloc) ELSE -1
        ncrot  == IF hasRot THEN Sum3(getJointConstraint(cs, "LIMIT_ROTATION").use_limit)
                  ELSE -1
    IN  IF hasLoc
        THEN IF ncloc = 3
             THEN IF ncrot = 3
                  THEN IF Sum3(crot) > 0 THEN "revolute" ELSE "fixed"
                  ELSE IF ncrot = 2 THEN "continuous" ELSE "floating"
             ELSE IF ncloc = 2 THEN "prismatic"
             ELSE IF ncloc = 1 THEN "planar"
             ELSE "floating"
        ELSE "floating"

DerivedCrot(cs) ==
    IF hasConstraint(cs, "LIMIT_ROTATION")
    THEN Restricting(getJointConstraint(cs, "LIMIT_ROTATION"))
    ELSE <<>>

\* The warning block: the mismatch warning formats joint['joint/type'] and
\* joint['link/name']; a KeyError on either logs the missing-type warning.
DeriveWarnings(pr, jtype) ==
    IF pr["joint/type"] = Absent THEN {"NoJointType"}
    ELSE IF jtype # pr["joint/type"]
         THEN IF pr["link/name"] = Absent THEN {"NoJointType"} ELSE {"TypeMismatch"}
         ELSE {}

\* the declared type is overwritten whatever `adjust` says
deriveJointTypeAlways(cs, pr, adjust) ==
    LET jtype == DerivedType(cs)
    IN  [jtype |-> jtype,
         crot  |-> DerivedCrot(cs),
         log   |-> DeriveWarnings(pr, jtype) \cup {"SetType"},
         props |-> [pr EXCEPT !["joint/type"] = jtype]]

deriveJointType(cs, pr, adjust) ==
    LET jtype == DerivedType(cs)
    IN  [jtype |-> jtype,
         crot  |-> DerivedCrot(cs),
         log   |-> DeriveWarnings(pr, jtype) \cup (IF adjust THEN {"SetType"} ELSE {}),
         props |-> IF adjust THEN [pr EXCEPT !["joint/type"] = jtype] ELSE pr]

-----------------------------------------------------------------------------
(* getJointConstraints *)

\* freeloc of getJointConstraints: per axis, use_min and use_max and min == max
ExtractorLocked(c) ==
    <<c.use_min[1] /\ c.use_max[1] /\ c.min[1] = c.max[1],
      c.use_min[2] /\ c.use_max[2] /\ c.min[2] = c.max[2],
      c.use_min[3] /\ c.use_max[3] /\ c.min[3] = c.max[3]>>

Returned(axis, limits, lg) == [raised |-> FALSE, axis |-> axis, limits |-> limits, log |-> lg]
Raised(lg) == [raised |-> TRUE, axis |-> <<>>, limits |-> <<>>, log |-> lg]

\* the elif chain tested in the order z, y, x
RotationLimitsReversed(c, crot) ==
    IF crot[3] THEN <<c.min[3], c.max[3]>>
    ELSE IF crot[2] THEN <<c.min[2], c.max[2]>>
    ELSE IF crot[1] THEN <<c.min[1], c.max[1]>>
    ELSE <<>>

\* the limits of the x axis whichever axis is restricting
RotationLimitsX(c, crot) ==
    IF crot[1] \/ crot[2] \/ crot[3] THEN <<c.min[1], c.max[1]>> ELSE <<>>

\* the revolute / continuous branch: the limits of the first restricting axis
RotationLimits(c, crot) ==
    IF crot[1] THEN <<c.min[1], c.max[1]>>
    ELSE IF crot[2] THEN <<c.min[2], c.max[2]>>
    ELSE IF crot[3] THEN <<c.min[3], c.max[3]>>
    ELSE <<>>

\* the tests are not negated: the limits of the first locked axis
PrismaticLimitsLocked(c, freeloc) ==
    IF freeloc[1] THEN <<c.min[1], c.max[1]>>
    ELSE IF freeloc[2] THEN <<c.min[2], c.max[2]>>
    ELSE IF freeloc[3] THEN <<c.min[3], c.max[3]>>
    ELSE <<>>

\* the prismatic branch: the limits of the first axis that is not locked
PrismaticLimits(c, freeloc) ==
    IF ~freeloc[1] THEN <<c.min[1], c.max[1]>>
    ELSE IF ~freeloc[2] THEN <<c.min[2], c.max[2]>>
    ELSE IF ~freeloc[3] THEN <<c.min[3], c.max[3]>>
    ELSE <<>>

\* the planar branch: axis is the 0/1 vector of freeloc, limits the two other axes
PlanarAxis(freeloc) ==
    <<IF freeloc[1] THEN 1 ELSE 0, IF freeloc[2] THEN 1 ELSE 0, IF freeloc[3] THEN 1 ELSE 0>>

\* the ranges of the locked axis and of the axis after it
PlanarLimitsShifted(c, axis) ==
    IF axis[1] # 0 THEN <<c.min[1], c.max[1], c.min[2], c.max[2]>>
    ELSE IF axis[2] # 0 THEN <<c.min[2], c.max[2], c.min[3], c.max[3]>>
    ELSE IF axis[3] # 0 THEN <<c.min[1], c.max[1], c.min[3], c.max[3]>>
    ELSE <<>>

PlanarLimits(c, axis) ==
    IF axis[1] # 0 THEN <<c.min[2], c.max[2], c.min[3], c.max[3]>>
    ELSE IF axis[2] # 0 THEN <<c.min[1], c.max[1], c.min[3], c.max[3]>>
    ELSE IF axis[3] # 0 THEN <<c.min[1], c.max[1], c.min[2], c.max[2]>>
    ELSE <<>>

\* axis = <<>> / limits = <<>> stand for None
getJointConstraints(cs, pr, bn) ==
    LET d    == deriveJointType(cs, pr, FALSE)
        jt   == d.jtype
        crot == d.crot
    IN  IF jt \in {"floating", "fixed"} THEN Returned(<<>>, <<>>, d.log)
        ELSE IF jt \in {"revolute", "continuous"} /\ Len(crot) > 0
        THEN Returned(bn, RotationLimits(getJointConstraint(cs, "LIMIT_ROTATION"), crot), d.log)
        ELSE IF ~hasConstraint(cs, "LIMIT_LOCATION") THEN Raised(d.log)
        ELSE LET c       == getJointConstraint(cs, "LIMIT_LOCATION")
                 freeloc == ExtractorLocked(c)
             IN  IF jt = "prismatic"
                 THEN IF Sum3(freeloc) = 2
                      THEN Returned(bn, PrismaticLimits(c, freeloc), d.log)
                      ELSE Raised(d.log)
                 ELSE IF jt = "planar"
                 THEN IF Sum3(freeloc) = 1
                      THEN Returned(PlanarAxis(freeloc),
                                    PlanarLimits(c, PlanarAxis(freeloc)), d.log)
                      ELSE Raised(d.log)
                 ELSE Returned(<<>>, <<>>, d.log)

-----------------------------------------------------------------------------
(* setJointConstraints *)

\* `for c in constraints: constraints.remove(c)` with an index-based iterator
\* (a Python list): removing the element under the cursor shifts the next one
\* into its place, so every second constraint survives.
RECURSIVE RemoveSkipping(_)
RemoveSkipping(cs) ==
    IF Len(cs) <= 1 THEN <<>>
    ELSE <<cs[2]>> \o RemoveSkipping(SubSeq(cs, 3, Len(cs)))

\* the loop is left out: the constraints of earlier builds stay on the bone
RemoveNothing(cs) == cs

\* `for c in joint.pose.bones[0].constraints: ...constraints.remove(c)`.
\* The host's collection iterator has already stepped to the following
\* element when it hands out c, so the loop body runs once per constraint
\* and each run removes the constraint it was handed.
RECURSIVE RemoveConstraints(_)
RemoveConstraints(cs) ==
    IF cs = <<>> THEN <<>> ELSE RemoveConstraints(Tail(cs))

\* cloc.use_min_x = ... = cloc.use_max_z = True
LockAllLocation(c) == [c EXCEPT !.use_min = AllTrue, !.use_max = AllTrue]

\* crot.use_limit_x/y/z = True with min = max = 0
LockAllRotation(c) == [c EXCEPT !.use_limit = AllTrue, !.min = Zero3, !.max = Zero3]

RevoluteRotation(c, lower, upper) ==
    [c EXCEPT !.use_limit = AllTrue,
              !.min = <<0, lower, 0>>, !.max = <<0, upper, 0>>]

\* use_limit_y is switched on as well
ContinuousRotationLimited(c) ==
    [c EXCEPT !.use_limit = AllTrue,
              !.min = <<0, c.min[2], 0>>, !.max = <<0, c.max[2], 0>>]

\* use_limit_y is not written: it keeps the value the constraint had
ContinuousRotation(c) ==
    [c EXCEPT !.use_limit = <<TRUE, c.use_limit[2], TRUE>>,
              !.min = <<0, c.min[2], 0>>, !.max = <<0, c.max[2], 0>>]

\* the limits of the motion axis are never written: y stays locked at 0
PrismaticLocationLocked(c, lower, upper) ==
    [c EXCEPT !.use_min = AllTrue, !.use_max = AllTrue]

PrismaticLocation(c, lower, upper) ==
    IF lower = upper
    THEN [c EXCEPT !.use_min = <<TRUE, FALSE, TRUE>>, !.use_max = <<TRUE, FALSE, TRUE>>]
    ELSE [c EXCEPT !.use_min = AllTrue, !.use_max = AllTrue,
                   !.min = <<c.min[1], lower, c.min[3]>>,
                   !.max = <<c.max[1], upper, c.max[3]>>]

PlanarLocation(c) ==
    [c EXCEPT !.use_min = <<c.use_min[1], TRUE, c.use_min[3]>>,
              !.use_max = <<c.use_max[1], TRUE, c.use_max[3]>>]

\* One branch of the if/elif chain: add a LIMIT_LOCATION constraint, fetch it
\* with getJointConstraint and write it; the same for LIMIT_ROTATION.
LocationFor(jointtype, c, lower, upper) ==
    CASE jointtype = "prismatic" -> PrismaticLocation(c, lower, upper)
      [] jointtype = "planar"    -> PlanarLocation(c)
      [] OTHER                   -> LockAllLocation(c)

RotationFor(jointtype, c, lower, upper) ==
    CASE jointtype = "revolute"   -> RevoluteRotation(c, lower, upper)
      [] jointtype = "continuous" -> ContinuousRotation(c)
      [] OTHER                    -> LockAllRotation(c)

AddConstraints(cs, jointtype, lower, upper) ==
    IF jointtype \in {"revolute", "continuous", "prismatic", "fixed", "planar"}
    THEN LET c1 == constraint_add(cs, "LIMIT_LOCATION")
             c2 == WriteBack(c1, "LIMIT_LOCATION",
                       LocationFor(jointtype, getJointConstraint(c1, "LIMIT_LOCATION"),
                                   lower, upper))
             c3 == constraint_add(c2, "LIMIT_ROTATION")
         IN  WriteBack(c3, "LIMIT_ROTATION",
                       RotationFor(jointtype, getJointConstraint(c3, "LIMIT_ROTATION"),
                                   lower, upper))
    ELSE cs     \* 'floating': pass; any other string: only the warning

\* joint['joint/type'] = jointtype, whatever the string
StoreType(pr, jointtype) == [pr EXCEPT !["joint/type"] = jointtype]

SpringKeys == {"joint/dynamics/springStiffness", "joint/dynamics/springDamping",
               "joint/dynamics/spring_const_constraint_axis1",
               "joint/dynamics/damping_const_constraint_axis1"}

\* "add spring & damping": the four properties are written only for a revolute
\* or prismatic joint when spring or damping is not zero
SetSpringDamping(pr, jointtype, spring, damping) ==
    IF jointtype \in {"revolute", "prismatic"} /\ (spring # 0 \/ damping # 0)
    THEN [k \in DOMAIN pr |->
            IF k \in {"joint/dynamics/springStiffness",
                      "joint/dynamics/spring_const_constraint_axis1"} THEN <<spring>>
            ELSE IF k \in {"joint/dynamics/springDamping",
                           "joint/dynamics/damping_const_constraint_axis1"} THEN <<damping>>
            ELSE pr[k]]
    ELSE pr

\* bpy.ops.rigidbody.constraint_add raises RuntimeError when the scene has no
\* rigid body world; the error is logged and the properties are written anyway
SpringLog(pt, jointtype, spring, damping, world) ==
    IF pt = "link" /\ jointtype \in {"revolute", "prismatic"}
       /\ (spring # 0 \/ damping # 0) /\ ~world
    THEN {"NoRigidBodyWorld"} ELSE {}

\* an approximation argument: None (or an empty dictionary) has given = FALSE;
\* a dictionary has each of 'function' and 'coefficients' or lacks it
NoApproximation == [given |-> FALSE, function |-> Absent, coefficients |-> Absent]

ApproxDicts ==
    {NoApproximation} \cup
    {[given |-> TRUE, function |-> f, coefficients |-> c] :
        f \in {"linear", Absent}, c \in {"coeffs", Absent}}

ApproxKeys == {"joint/maxeffort_approximation", "joint/maxeffort_coefficients",
               "joint/maxspeed_approximation", "joint/maxspeed_coefficients"}

\* `if d: joint[fkey] = d["function"]; joint[ckey] = d["coefficients"]`: the
\* properties after the two assignments, and whether one raised KeyError
SetApproximation(pr, d, fkey, ckey) ==
    IF ~d.given THEN [props |-> pr, keyerror |-> FALSE]
    ELSE IF d.function = Absent THEN [props |-> pr, keyerror |-> TRUE]
    ELSE IF d.coefficients = Absent
         THEN [props |-> [pr EXCEPT ![fkey] = d.function], keyerror |-> TRUE]
    ELSE [props |-> [pr EXCEPT ![fkey] = d.function, ![ckey] = d.coefficients],
          keyerror |-> FALSE]

\* "approximation functions for effort and speed": one try block, the KeyError
\* of either dictionary ends it and is logged
SetApproximations(pr, jointtype, effort, speed) ==
    IF jointtype \in {"revolute", "continuous", "prismatic"}
    THEN LET e == SetApproximation(pr, effort, "joint/maxeffort_approximation",
                                   "joint/maxeffort_coefficients")
             v == SetApproximation(e.props, speed, "joint/maxspeed_approximation",
                                   "joint/maxspeed_coefficients")
         IN  IF e.keyerror THEN [props |-> e.props, log |-> {"IllDefinedApproximation"}]
             ELSE [props |-> v.props,
                   log |-> IF v.keyerror THEN {"IllDefinedApproximation"} ELSE {}]
    ELSE [props |-> pr, log |-> {}]

\* the result: the bone's constraints, the object's properties and what was logged
setJointConstraintsAll(cs, pr, pt, jointtype, lower, upper, spring, damping, effort, speed) ==
    LET cleared == RemoveConstraints(cs)
        approx  == SetApproximations(
                       StoreType(SetSpringDamping(pr, jointtype, spring, damping), jointtype),
                       jointtype, effort, speed)
    IN  IF pt = "link"
        THEN [cons  |-> AddConstraints(cleared, jointtype, lower, upper),
              props |-> approx.props,
              log   |-> (IF jointtype \in JointTypes THEN {} ELSE {"UnknownJointType"})
                        \cup approx.log]
        ELSE [cons |-> cleared, props |-> pr, log |-> {}]

\* the call with spring, damping and the approximations left to their defaults
setJointConstraints(cs, pr, pt, jointtype, lower, upper) ==
    setJointConstraintsAll(cs, pr, pt, jointtype, lower, upper, 0, 0,
                           NoApproximation, NoApproximation)

-----------------------------------------------------------------------------
(* createJoint, from "set axis" to the call of setJointConstraints *)

\* the joint dictionaries handed to createJoint:
\*   axis    <<>> for no 'axis' key, else an integer vector
\*   limits  which keys joint['limits'] has: "full", "noeffort" (no 'effort'),
\*           "nolower" (no 'lower' / 'upper'), "none" (no 'limits' key at all)
AxisInputs == {<<>>, <<0, 0, 0>>, <<1, 0, 0>>, <<0, 0, -2>>}

Sign(x) == IF x > 0 THEN 1 ELSE IF x < 0 THEN -1 ELSE 0

\* mathutils.Vector.length == 0. / .normalized(), on axis-aligned vectors
IsZeroLength(v) == v[1] = 0 /\ v[2] = 0 /\ v[3] = 0
Normalized(v) == <<Sign(v[1]), Sign(v[2]), Sign(v[3])>>

\* editbone.tail = editbone.head + axis.normalized() * length
SetAxis(bn, axis) ==
    IF axis = <<>> \/ IsZeroLength(axis) THEN bn ELSE Normalized(axis)

AxisLog(axis) == IF axis # <<>> /\ IsZeroLength(axis) THEN {"ZeroLengthAxis"} ELSE {}

\* for param in ['effort', 'velocity']: linkobj['joint/max'+param] = joint['limits'][param]
SetEffortVelocity(pr, shape) ==
    CASE shape = "none"     -> pr
      [] shape = "noeffort" -> [pr EXCEPT !["joint/maxvelocity"] = <<1>>]
      [] OTHER              -> [pr EXCEPT !["joint/maxeffort"] = <<1>>,
                                          !["joint/maxvelocity"] = <<1>>]

LimitsLog(shape) == IF shape = "noeffort" THEN {"LimitsIncomplete"} ELSE {}

\* lower / upper: joint['limits'] values, or 0.0 both on a KeyError
HasLowerUpper(shape) == shape \in {"full", "noeffort"}

createJoint(cs, pr, bn, pt, axis, shape, jointtype, lower, upper) ==
    LET lo == IF HasLowerUpper(shape) THEN lower ELSE 0
        up == IF HasLowerUpper(shape) THEN upper ELSE 0
        r  == setJointConstraints(cs, SetEffortVelocity(pr, shape), pt, jointtype, lo, up)
    IN  [cons  |-> r.cons,
         props |-> r.props,
         bone  |-> SetAxis(bn, axis),
         log   |-> AxisLog(axis) \cup LimitsLog(shape) \cup r.log]

-----------------------------------------------------------------------------
(* The joint object: calls of the builder, the classifier and the extractor *)

PropKeys == {"joint/type", "link/name", "joint/maxeffort", "joint/maxvelocity"}
            \cup SpringKeys \cup ApproxKeys

NoProps ==
    [k \in PropKeys |->
        IF k \in {"joint/maxeffort", "joint/maxvelocity"} \cup SpringKeys THEN <<>>
        ELSE Absent]

\* the record kept of a call; fields a call does not use keep these values
NoCall ==
    [op |-> "none", jointtype |-> None, lower |-> 0, upper |-> 0, adjust |-> FALSE,
     axis |-> <<>>, shape |-> "none",
     effort |-> NoApproximation, speed |-> NoApproximation,
     spring |-> 0, damping |-> 0,
     jtype |-> None, crot |-> <<>>, raised |-> FALSE, raxis |-> <<>>, limits |-> <<>>]

Snapshot == [cons |-> Old(cons), props |-> props]

\* the limit ranges handed to the builder: lower <= upper
LimitPairs == {lu \in Limits \X Limits : lu[1] <= lu[2]}

TreeIdle == UNCHANGED tvars

\* `last` keeps the arguments of the most recent builder call (jointtype, lower,
\* upper, axis, shape) while the classifier and the extractor are called after it.
SetJointConstraints ==
    /\ \E jointtype \in JointTypes \cup {UnknownType}, lu \in LimitPairs :
         LET r == setJointConstraints(Old(cons), props, phobostype, jointtype, lu[1], lu[2])
         IN  /\ cons' = r.cons
             /\ props' = r.props
             /\ log' = r.log
             /\ last' = [NoCall EXCEPT !.op = "setJointConstraints",
                                       !.jointtype = jointtype,
                                       !.lower = lu[1], !.upper = lu[2]]
    /\ pre' = Snapshot
    /\ UNCHANGED <<bone, phobostype, ncreated>>
    /\ TreeIdle

\* the builder called with approximations for maximum effort and speed
SetJointConstraintsApprox ==
    /\ \E jointtype \in JointTypes \cup {UnknownType}, effort \in ApproxDicts,
          speed \in ApproxDicts :
         LET r == setJointConstraintsAll(Old(cons), props, phobostype, jointtype, 0, 0, 0, 0,
                                         effort, speed)
         IN  /\ cons' = r.cons
             /\ props' = r.props
             /\ log' = r.log
             /\ last' = [NoCall EXCEPT !.op = "setJointConstraints",
                                       !.jointtype = jointtype,
                                       !.effort = effort, !.speed = speed]
    /\ pre' = Snapshot
    /\ UNCHANGED <<bone, phobostype, ncreated>>
    /\ TreeIdle

Springs == 0 .. MaxSpring

\* the builder called with spring and damping, in a scene with or without a
\* rigid body world
SetJointConstraintsSpring ==
    /\ \E jointtype \in JointTypes \cup {UnknownType}, spring \in Springs,
          damping \in Springs, world \in BOOLEAN :
         LET r == setJointConstraintsAll(Old(cons), props, phobostype, jointtype, 0, 0,
                                         spring, damping, NoApproximation, NoApproximation)
         IN  /\ cons' = r.cons
             /\ props' = r.props
             /\ log' = r.log \cup SpringLog(phobostype, jointtype, spring, damping, world)
             /\ last' = [NoCall EXCEPT !.op = "setJointConstraints",
                                       !.jointtype = jointtype,
                                       !.spring = spring, !.damping = damping]
    /\ pre' = Snapshot
    /\ UNCHANGED <<bone, phobostype, ncreated>>
    /\ TreeIdle

\* the 'limits' entry of the joint dictionary: which keys it has, and lower / upper
LimitInputs ==
    {<<shape, lu[1], lu[2]>> : shape \in {"full", "noeffort"}, lu \in LimitPairs}
    \cup {<<"none", 0, 0>>, <<"nolower", 0, 0>>}

CreateJoint ==
    /\ ncreated < MaxCreate
    /\ \E axis \in AxisInputs, lim \in LimitInputs, jointtype \in JointTypes \cup {UnknownType} :
         LET r == createJoint(Old(cons), props, bone, phobostype, axis, lim[1], jointtype,
                              lim[2], lim[3])
         IN  /\ cons' = r.cons
             /\ props' = r.props
             /\ bone' = r.bone
             /\ log' = r.log
             /\ last' = [NoCall EXCEPT !.op = "createJoint", !.jointtype = jointtype,
                                       !.lower = lim[2], !.upper = lim[3],
                                       !.axis = axis, !.shape = lim[1]]
    /\ pre' = Snapshot
    /\ ncreated' = ncreated + 1
    /\ UNCHANGED phobostype
    /\ TreeIdle

DeriveJointType ==
    /\ \E adjust \in BOOLEAN :
         LET d == deriveJointType(cons, props, adjust)
         IN  /\ props' = d.props
             /\ log' = d.log
             /\ last' = [last EXCEPT !.op = "deriveJointType", !.adjust = adjust,
                                     !.jtype = d.jtype, !.crot = d.crot,
                                     !.raised = FALSE, !.raxis = <<>>, !.limits = <<>>]
    /\ pre' = Snapshot
    /\ cons' = Old(cons)
    /\ UNCHANGED <<bone, phobostype, ncreated>>
    /\ TreeIdle

GetJointConstraints ==
    /\ LET g == getJointConstraints(cons, props, bone)
       IN  /\ log' = g.log
           /\ last' = [last EXCEPT !.op = "getJointConstraints", !.adjust = FALSE,
                                   !.jtype = None, !.crot = <<>>,
                                   !.raised = g.raised, !.raxis = g.axis,
                                   !.limits = g.limits]
    /\ pre' = Snapshot
    /\ cons' = Old(cons)
    /\ UNCHANGED <<props, bone, phobostype, ncreated>>
    /\ TreeIdle

\* a new armature object with one bone along Y, no constraint, no joint type
InitJoint ==
    /\ cons = <<>>
    /\ props = [NoProps EXCEPT !["link/name"] = "link1"]
    /\ bone = <<0, 1, 0>>
    /\ phobostype \in {"link", "visual"}
    /\ ncreated = 0
    /\ last = NoCall
    /\ pre = [cons |-> <<>>, props |-> [NoProps EXCEPT !["link/name"] = "link1"]]
    /\ log = {}

InitGroupsIdle ==
    /\ groups = {}
    /\ removed = <<>>

InitTreeIdle ==
    /\ InitGroupsIdle
    /\ parent = <<>>
    /\ ptype = <<>>
    /\ meta = <<>>
    /\ matrix = <<>>
    /\ rk = <<>>
    /\ ncp = <<>>

\* Builder, classifier and extractor called in any order on one object
Init == InitJoint /\ InitTreeIdle

Next == SetJointConstraints \/ DeriveJointType \/ GetJointConstraints

Spec == Init /\ [][Next]_vars

\* Builder calls with approximations, one after the other on one object
NextApprox == SetJointConstraintsApprox

SpecApprox == Init /\ [][NextApprox]_vars

\* Builder calls with spring and damping, one after the other on one object
NextSpring == SetJointConstraintsSpring

SpecSpring == Init /\ [][NextSpring]_vars

\* A joint definition applied with createJoint, then classified and extracted
NextCreate == CreateJoint \/ DeriveJointType \/ GetJointConstraints

SpecCreate == Init /\ [][NextCreate]_vars

-----------------------------------------------------------------------------
(* Arbitrary constraint sets, as a user or an importer may leave them on the *)
(* bone: the classifier and the extractor applied to each of them            *)

\* one translation axis i: free, locked at 0, only the minimum enabled (at 0),
\* or a range -i .. i with both ends enabled
LocAxis(i) ==
    {[use_min |-> FALSE, use_max |-> FALSE, min |-> 0, max |-> 0],
     [use_min |-> TRUE,  use_max |-> TRUE,  min |-> 0, max |-> 0],
     [use_min |-> TRUE,  use_max |-> FALSE, min |-> 0, max |-> 0],
     [use_min |-> TRUE,  use_max |-> TRUE,  min |-> 0 - i, max |-> i]}

\* one rotation axis i: no limit, limited to [0,0], limited to -i .. i, or
\* bounds -i .. i stored with limiting switched off
RotAxis(i) ==
    {[use_limit |-> FALSE, min |-> 0, max |-> 0],
     [use_limit |-> TRUE,  min |-> 0, max |-> 0],
     [use_limit |-> TRUE,  min |-> 0 - i, max |-> i],
     [use_limit |-> FALSE, min |-> 0 - i, max |-> i]}

LocConstraints ==
    {[NewConstraint("LIMIT_LOCATION") EXCEPT
         !.use_min = <<x.use_min, y.use_min, z.use_min>>,
         !.use_max = <<x.use_max, y.use_max, z.use_max>>,
         !.min = <<x.min, y.min, z.min>>,
         !.max = <<x.max, y.max, z.max>>,
         !.born = "old"] : x \in LocAxis(1), y \in LocAxis(2), z \in LocAxis(3)}

RotConstraints ==
    {[NewConstraint("LIMIT_ROTATION") EXCEPT
         !.use_limit = <<x.use_limit, y.use_limit, z.use_limit>>,
         !.min = <<x.min, y.min, z.min>>,
         !.max = <<x.max, y.max, z.max>>,
         !.born = "old"] : x \in RotAxis(1), y \in RotAxis(2), z \in RotAxis(3)}

ConstraintSets ==
    {<<>>} \cup {<<l>> : l \in LocConstraints} \cup {<<r>> : r \in RotConstraints}
    \cup {<<l, r>> : l \in LocConstraints, r \in RotConstraints}

InitCS ==
    /\ cons \in ConstraintSets
    /\ \E t \in JointTypes \cup {Absent}, name \in {"link1", Absent} :
         props = [NoProps EXCEPT !["link/name"] = name, !["joint/type"] = t]
    /\ bone = <<0, 1, 0>>
    /\ phobostype = "link"
    /\ ncreated = 0
    /\ last = NoCall
    /\ pre = [cons |-> cons, props |-> props]
    /\ log = {}
    /\ InitTreeIdle

NextCS == DeriveJointType \/ GetJointConstraints

SpecCS == InitCS /\ [][NextCS]_vars

-----------------------------------------------------------------------------
(* restructureKinematicTree *)

\* obj.parent is None
Null == 0

Nodes == 1 .. NumNodes

\* the climb stops at the parent of the object
getParentAsRoot(par, obj) == par[obj]

\* sUtils.getRoot: climb while the object has a parent (isRoot is false for
\* every object that has one)
RECURSIVE getRoot(_, _)
getRoot(par, obj) == IF par[obj] = Null THEN obj ELSE getRoot(par, par[obj])

\* the append is not guarded by the phobostype test
RECURSIVE GatherAll(_, _, _, _, _)
GatherAll(par, pty, root, obj, links) ==
    IF par[obj] = root THEN Append(links, root)
    ELSE GatherAll(par, pty, root, par[obj], Append(links, par[obj]))

\* "gather chain of links ascending the tree": from obj, while obj.parent is
\* not root, step to the parent and append it if its phobostype is 'link'
RECURSIVE GatherLinks(_, _, _, _, _)
GatherLinks(par, pty, root, obj, links) ==
    IF par[obj] = root THEN Append(links, root)
    ELSE GatherLinks(par, pty, root, par[obj],
                     IF pty[par[obj]] = "link" THEN Append(links, par[obj]) ELSE links)

Range(seq) == {seq[i] : i \in DOMAIN seq}

\* selectObjects(links, True); bpy.ops.object.parent_clear(type='CLEAR_KEEP_TRANSFORM')
parent_clear(par, links) == [n \in DOMAIN par |-> IF n \in Range(links) THEN Null ELSE par[n]]

\* the active object is the child: the first object of the pair gets the parent
parent_set_reversed(par, p, child) == [par EXCEPT ![p] = child]

\* selectObjects((parent, child), True, active=0); bpy.ops.object.parent_set(...)
parent_set(par, p, child) == [par EXCEPT ![child] = p]

\* the loop `for i in range(len(links) - 1)` from step i on
RECURSIVE SetLoop(_, _, _)
SetLoop(par, links, i) ==
    IF i > Len(links) - 1 THEN par
    ELSE SetLoop(parent_set(par, links[i], links[i + 1]), links, i + 1)

\* a pose is a permutation of three points: composition is not commutative
Identity == <<1, 2, 3>>
Poses == {p \in [1 .. 3 -> 1 .. 3] : \A i \in 1 .. 3 : \E j \in 1 .. 3 : p[j] = i}

\* the matrix product a * b
Compose(a, b) == [i \in 1 .. 3 |-> a[b[i]]]

Inverse(a) == CHOOSE b \in Poses : Compose(a, b) = Identity

\* getCombinedTransform(obj, None), the world pose of obj: the product of the
\* matrix_local of obj and of all its ancestors
RECURSIVE matrix_world(_, _, _)
matrix_world(par, mat, obj) ==
    IF par[obj] = Null THEN mat[obj]
    ELSE Compose(matrix_world(par, mat, par[obj]), mat[obj])

WorldOf(par, mat) == [n \in DOMAIN par |-> matrix_world(par, mat, n)]

\* parent_clear(type='CLEAR'): the local matrix stays as it is
clear_transform(par, mat, links) == mat

\* parent_clear(type='CLEAR_KEEP_TRANSFORM'): every selected object keeps its
\* world pose, which becomes its local matrix
clear_keep_transform(par, mat, links) ==
    [n \in DOMAIN mat |-> IF n \in Range(links) THEN matrix_world(par, mat, n) ELSE mat[n]]

\* parent_set: the child gets the inverse of the parent's world pose as parent
\* inverse, so that its world pose stays what it was
set_transform(par, mat, p, child) ==
    [mat EXCEPT ![child] = Compose(Inverse(matrix_world(par, mat, p)),
                                   matrix_world(par, mat, child))]

\* the property is copied to link and stays on root
CopyPropertyKeep(mt, key, link, root) ==
    IF mt[root][key] # Absent
    THEN [n \in DOMAIN mt |->
            IF n = link THEN [mt[n] EXCEPT ![key] = mt[root][key]]
            ELSE mt[n]]
    ELSE mt

\* "copy properties": link[key] = root[key], then del root[key]
CopyProperty(mt, key, link, root) ==
    IF mt[root][key] # Absent
    THEN [n \in DOMAIN mt |->
            IF n = root THEN [mt[n] EXCEPT ![key] = Absent]
            ELSE IF n = link THEN [mt[n] EXCEPT ![key] = mt[root][key]]
            ELSE mt[n]]
    ELSE mt

CopyProperties(mt, link, root) ==
    CopyProperty(CopyProperty(mt, "modelname", link, root), "version", link, root)

\* the parent relation a complete call leaves (root left to its default)
Restructured(par, pty, link) ==
    IF par[link] = Null THEN par
    ELSE LET links == GatherLinks(par, pty, getRoot(par, link), link, <<link>>)
         IN  SetLoop(parent_clear(par, links), links, 1)

RkIdle == [pc |-> "idle", link |-> Null, root |-> Null, links |-> <<>>, i |-> 0,
           before |-> <<>>, n |-> 0,
           metabefore |-> <<>>, worldbefore |-> <<>>, first |-> <<>>]

\* the test "stop right now when the link is already root" is left out
StartWithoutRootTest(par, pty, link) ==
    LET root == getRoot(par, link)
    IN  [pc |-> "clear", root |-> root,
         links |-> IF par[link] = Null THEN <<link>>
                   ELSE GatherLinks(par, pty, root, link, <<link>>)]

\* restructureKinematicTree(link) up to the host operators: root, the early
\* return for a link that is the root, and the chain
StartRestructure(par, pty, link) ==
    LET root == getRoot(par, link)
    IN  IF par[link] = Null
        THEN [pc |-> "done", root |-> root, links |-> <<link>>]
        ELSE [pc |-> "clear", root |-> root,
              links |-> GatherLinks(par, pty, root, link, <<link>>)]

\* `before`, `metabefore`, `worldbefore` record the scene as the call finds it,
\* `first` the scene as the first call found it
CallRestructure ==
    /\ rk.pc \in {"idle", "done"}
    /\ rk.n < MaxReroots
    /\ \E link \in Nodes :
         LET s == StartRestructure(parent, ptype, link)
             world == WorldOf(parent, matrix)
         IN  rk' = [pc |-> s.pc, link |-> link, root |-> s.root, links |-> s.links,
                    i |-> 0, before |-> parent, n |-> rk.n + 1,
                    metabefore |-> meta, worldbefore |-> world,
                    first |-> IF rk.n = 0 THEN [parent |-> parent, world |-> world]
                              ELSE rk.first]
    /\ UNCHANGED <<parent, ptype, meta, matrix>>
    /\ UNCHANGED <<jvars, ncp, gvars>>

\* "unparent all links"
ClearParents ==
    /\ rk.pc = "clear"
    /\ parent' = parent_clear(parent, rk.links)
    /\ matrix' = clear_keep_transform(parent, matrix, rk.links)
    /\ rk' = [rk EXCEPT !.pc = "set", !.i = 1]
    /\ UNCHANGED <<ptype, meta>>
    /\ UNCHANGED <<jvars, ncp, gvars>>

\* one pass of the re-attach loop
SetParent ==
    /\ rk.pc = "set"
    /\ rk.i <= Len(rk.links) - 1
    /\ parent' = parent_set(parent, rk.links[rk.i], rk.links[rk.i + 1])
    /\ matrix' = set_transform(parent, matrix, rk.links[rk.i], rk.links[rk.i + 1])
    /\ rk' = [rk EXCEPT !.i = rk.i + 1]
    /\ UNCHANGED <<ptype, meta>>
    /\ UNCHANGED <<jvars, ncp, gvars>>

\* the loop is over: the properties move and the call returns
FinishRestructure ==
    /\ rk.pc = "set"
    /\ rk.i > Len(rk.links) - 1
    /\ meta' = CopyProperties(meta, rk.link, rk.root)
    /\ rk' = [rk EXCEPT !.pc = "done"]
    /\ UNCHANGED <<parent, ptype, matrix>>
    /\ UNCHANGED <<jvars, ncp, gvars>>

\* a host operator (parent_clear, parent_set) raises RuntimeError: nothing
\* in restructureKinematicTree catches it, the call ends there
OperatorFails ==
    /\ \/ rk.pc = "clear"
       \/ rk.pc = "set" /\ rk.i <= Len(rk.links) - 1
    /\ rk' = [rk EXCEPT !.pc = "failed"]
    /\ UNCHANGED <<parent, ptype, meta, matrix>>
    /\ UNCHANGED <<jvars, ncp, gvars>>

\* the trees the model starts from: object 1 is the root, the parent of n is
\* one of 1 .. n-1; at most one object is not a 'link'; the root carries the
\* model name and may carry a version; neighbouring objects have local poses
\* that do not commute
InitialParents == {p \in [Nodes -> {Null} \cup Nodes] :
                      p[1] = Null /\ \A n \in Nodes \ {1} : p[n] # Null /\ p[n] < n}

InitialTypes == {[n \in Nodes |-> "link"]} \cup
                {[n \in Nodes |-> IF n = m THEN "visual" ELSE "link"] : m \in Nodes}

InitialMeta ==
    {[n \in Nodes |-> IF n = 1 THEN [modelname |-> "robot", version |-> v]
                      ELSE [modelname |-> Absent, version |-> Absent]] : v \in {"1.0", Absent}}

InitialMatrices ==
    {[n \in Nodes |-> IF n % 2 = 1 THEN <<2, 1, 3>> ELSE <<2, 3, 1>>],
     [n \in Nodes |-> IF n % 2 = 1 THEN <<3, 1, 2>> ELSE <<1, 3, 2>>]}

InitTree ==
    /\ parent \in InitialParents
    /\ ptype \in InitialTypes
    /\ meta \in InitialMeta
    /\ matrix \in InitialMatrices
    /\ rk = RkIdle
    /\ ncp = <<>>
    /\ InitGroupsIdle
    /\ InitJoint
    /\ phobostype = "link"

NextTree == CallRestructure \/ ClearParents \/ SetParent \/ FinishRestructure \/ OperatorFails

SpecTree == InitTree /\ [][NextTree]_vars

-----------------------------------------------------------------------------
(* getNearestCommonParent *)

\* `while o.parent and o.parent != parent: o = o.parent; inter_objects.add(o)`
RECURSIVE WalkUp(_, _, _, _)
WalkUp(par, o, cand, inter) ==
    IF par[o] # Null /\ par[o] # cand
    THEN WalkUp(par, par[o], cand, inter \cup {par[o]})
    ELSE [o |-> o, inter |-> inter]

\* the loop ends after the first of the other objects
RECURSIVE ForRestFirst(_, _, _, _, _)
ForRestFirst(par, rest, k, cand, inter) ==
    IF k > Len(rest) THEN [in_all |-> TRUE, inter |-> inter]
    ELSE LET w == WalkUp(par, rest[k], cand, inter)
         IN  [in_all |-> par[w.o] = cand, inter |-> w.inter]

\* `for obj in rest`, from the k-th object on: in_all becomes False and the
\* loop breaks at the first object whose chain does not reach the candidate
RECURSIVE ForRest(_, _, _, _, _)
ForRest(par, rest, k, cand, inter) ==
    IF k > Len(rest) THEN [in_all |-> TRUE, inter |-> inter]
    ELSE LET w == WalkUp(par, rest[k], cand, inter)
         IN  IF par[w.o] # cand THEN [in_all |-> FALSE, inter |-> w.inter]
             ELSE ForRest(par, rest, k + 1, cand, w.inter)

NoResult == [found |-> FALSE, ancestor |-> Null, inter |-> {}]

\* `while not in_all and parent.parent`, then the return
RECURSIVE Candidates(_, _, _, _, _)
Candidates(par, rest, p, in_all, inter) ==
    IF ~in_all /\ par[p] # Null
    THEN LET r == ForRest(par, rest, 1, par[p], inter \cup {par[p]})
         IN  Candidates(par, rest, par[p], r.in_all, r.inter)
    ELSE IF ~in_all THEN NoResult
    ELSE [found |-> TRUE, ancestor |-> p, inter |-> inter \ {p}]

getNearestCommonParent(par, objs) == Candidates(par, Tail(objs), Head(objs), FALSE, {})

\* the non-empty lists of at most MaxObjs objects
ObjLists == UNION {[1 .. k -> Nodes] : k \in 1 .. MaxObjs}

\* the call on the list the scene was set up with
GetNearestCommonParent ==
    /\ ~ncp.called
    /\ ncp' = [ncp EXCEPT !.called = TRUE,
                          !.result = getNearestCommonParent(parent, ncp.objs)]
    /\ UNCHANGED <<parent, ptype, meta, matrix, rk>>
    /\ UNCHANGED <<jvars, gvars>>

\* the forests the finder is applied to: the parent of n is none or one of
\* 1 .. n-1, so that the scene holds one tree or several
Forests == {p \in [Nodes -> {Null} \cup Nodes] : \A n \in Nodes : p[n] = Null \/ p[n] < n}

InitForest ==
    /\ parent \in Forests
    /\ ptype = [n \in Nodes |-> "link"]
    /\ meta = [n \in Nodes |-> [modelname |-> Absent, version |-> Absent]]
    /\ matrix = [n \in Nodes |-> Identity]
    /\ rk = RkIdle
    /\ \E objs \in ObjLists : ncp = [objs |-> objs, called |-> FALSE, result |-> NoResult]
    /\ InitGroupsIdle
    /\ InitJoint
    /\ phobostype = "link"

NextForest == GetNearestCommonParent

SpecForest == InitForest /\ [][NextForest]_vars

-----------------------------------------------------------------------------
(* removeSubmodel *)

\* prefix + ':' + submodelname, followed by '/' + version unless version is ''
GroupName(prefix, submodelname, version) ==
    IF version = "" THEN <<prefix, submodelname>> ELSE <<prefix, submodelname, version>>

\* the groups after the call and the value it returns
removeSubmodel(grps, submodelname, submodeltype, version, interfaces) ==
    LET submodelgroupname  == GroupName(submodeltype, submodelname, version)
        interfacegroupname == GroupName("interfaces", submodelname, version)
        found == submodelgroupname \in grps
        g1    == grps \ {submodelgroupname}
    IN  IF found /\ ~interfaces THEN [groups |-> g1, result |-> TRUE]
        ELSE IF interfaces /\ interfacegroupname \in g1
        THEN [groups |-> g1 \ {interfacegroupname}, result |-> TRUE]
        ELSE [groups |-> g1, result |-> FALSE]

SubmodelTypes == {"mechanism", "sensor"}
Versions == {"", "1.0"}

GroupNames == {GroupName(t, "arm", v) : t \in SubmodelTypes \cup {"interfaces"}, v \in Versions}

RemoveSubmodel ==
    /\ \E submodeltype \in SubmodelTypes, version \in Versions, interfaces \in BOOLEAN :
         LET r == removeSubmodel(groups, "arm", submodeltype, version, interfaces)
         IN  /\ groups' = r.groups
             /\ removed' = [submodeltype |-> submodeltype, version |-> version,
                             interfaces |-> interfaces, before |-> groups,
                             result |-> r.result]
    /\ UNCHANGED <<parent, ptype, meta, matrix, rk, ncp>>
    /\ UNCHANGED jvars

\* a project with any of the submodel and interface groups of one submodel
InitGroups ==
    /\ groups \in SUBSET GroupNames
    /\ removed = [submodeltype |-> None, version |-> "", interfaces |-> FALSE,
                  before |-> groups, result |-> FALSE]
    /\ parent = <<>>
    /\ ptype = <<>>
    /\ meta = <<>>
    /\ matrix = <<>>
    /\ rk = <<>>
    /\ ncp = <<>>
    /\ InitJoint
    /\ phobostype = "link"

NextGroups == RemoveSubmodel

SpecGroups == InitGroups /\ [][NextGroups]_vars

-----------------------------------------------------------------------------
(* Properties of the builder, the classifier and the extractor *)

DeclaredType == props["joint/type"]
DeclaredBefore == pre.props["joint/type"]

BuiltOnLink(types) ==
    /\ phobostype = "link"
    /\ last.jointtype \in types
    /\ last.lower < last.upper

\* C1: on a link object, deriveJointType called after
\* setJointConstraints(joint, t, lower, upper), with t one of fixed, revolute,
\* continuous, prismatic, planar and lower < upper, returns t.
C1_ClassifyAfterBuild ==
    (/\ last.op = "deriveJointType"
     /\ BuiltOnLink({"fixed", "revolute", "continuous", "prismatic", "planar"}))
    => last.jtype = last.jointtype

C1_Witness ==
    /\ last.op = "deriveJointType"
    /\ BuiltOnLink({"prismatic"})
    /\ last.jtype = "prismatic"

\* C2 as stated: getJointConstraints called after
\* setJointConstraints(joint, t, lower, upper), t one of revolute, continuous,
\* prismatic and lower < upper, returns a non-null axis and the limits (lower, upper).
C2_ExtractAfterBuild_Original ==
    (/\ last.op = "getJointConstraints"
     /\ BuiltOnLink({"revolute", "continuous", "prismatic"}))
    => (~last.raised /\ last.raxis # <<>> /\ last.limits = <<last.lower, last.upper>>)

\* C2 amended: for revolute and prismatic the extractor returns a non-null
\* axis and the limits (lower, upper); for continuous it returns a non-null
\* axis and no limits (None), since the builder stores no range for it.
C2_ExtractAfterBuild ==
    (/\ last.op = "getJointConstraints"
     /\ BuiltOnLink({"revolute", "continuous", "prismatic"}))
    => /\ ~last.raised
       /\ last.raxis # <<>>
       /\ last.jointtype \in {"revolute", "prismatic"}
            => last.limits = <<last.lower, last.upper>>
       /\ last.jointtype = "continuous" => last.limits = <<>>

C2_Witness ==
    /\ last.op = "getJointConstraints"
    /\ BuiltOnLink({"revolute"})
    /\ last.lower = -1 /\ last.upper = 1
    /\ last.limits = <<-1, 1>>
    /\ last.raxis = <<0, 1, 0>>

NoLockedAxis(cs) ==
    \A i \in DOMAIN cs :
        /\ cs[i].use_min = AllFalse
        /\ cs[i].use_max = AllFalse
        /\ cs[i].use_limit = AllFalse

\* C3: when setJointConstraints returns, no constraint that was on the bone
\* before the call is still on it; after setJointConstraints(joint, 'floating')
\* the bone carries no locked translation axis and no locked rotation axis,
\* whatever was built before (a 'fixed' joint in particular).
C3_BuilderClearsPriorState ==
    last.op = "setJointConstraints"
    => /\ \A i \in DOMAIN cons : cons[i].born = "new"
       /\ last.jointtype = "floating" => NoLockedAxis(cons)

C3_Witness ==
    /\ last.op = "setJointConstraints"
    /\ phobostype = "link"
    /\ last.jointtype = "floating"
    /\ DeclaredBefore = "fixed"
    /\ Len(pre.cons) = 2
    /\ cons = <<>>

\* The locked test of the data model: minimum enabled, maximum enabled, min = max
IsLocked(c, i) == c.use_min[i] /\ c.use_max[i] /\ c.min[i] = c.max[i]

\* nLoc: the number of locked translation axes (-1: no translation constraint)
NLoc(cs) ==
    IF hasConstraint(cs, "LIMIT_LOCATION")
    THEN Cardinality({i \in Axes : IsLocked(getJointConstraint(cs, "LIMIT_LOCATION"), i)})
    ELSE -1

\* nRot: the number of rotation axes with limiting enabled
NRot(cs) ==
    IF hasConstraint(cs, "LIMIT_ROTATION")
    THEN Cardinality({i \in Axes : getJointConstraint(cs, "LIMIT_ROTATION").use_limit[i]})
    ELSE 0

\* the rotation axes with limiting enabled and a bound that is not zero
RestrictingAxes(cs) ==
    IF hasConstraint(cs, "LIMIT_ROTATION")
    THEN LET r == getJointConstraint(cs, "LIMIT_ROTATION")
         IN  {i \in Axes : r.use_limit[i] /\ ~(r.min[i] = 0 /\ r.max[i] = 0)}
    ELSE {}

\* the count-based reference classification; it leaves nLoc = 3 with nRot
\* neither 2 nor 3 open
ReferenceAllows(cs, jtype) ==
    /\ NLoc(cs) \in {-1, 0} => jtype = "floating"
    /\ NLoc(cs) = 1 => jtype = "planar"
    /\ NLoc(cs) = 2 => jtype = "prismatic"
    /\ (NLoc(cs) = 3 /\ NRot(cs) = 3)
         => jtype = (IF RestrictingAxes(cs) = {} THEN "fixed" ELSE "revolute")
    /\ (NLoc(cs) = 3 /\ NRot(cs) = 2) => jtype = "continuous"

\* C4: deriveJointType returns the type of the count-based reference
\* classification for every constraint set, a translation axis being locked
\* when its minimum and its maximum are enabled and equal.
C4_CountBasedClassification ==
    last.op = "deriveJointType" => ReferenceAllows(cons, last.jtype)

Inconsistent(cs) == NLoc(cs) = 3 /\ NRot(cs) \notin {2, 3}

RotationRange(cs, i) ==
    <<getJointConstraint(cs, "LIMIT_ROTATION").min[i],
      getJointConstraint(cs, "LIMIT_ROTATION").max[i]>>

ClassifiedRotational(cs) == DerivedType(cs) \in {"revolute", "continuous"}

C7_UnknownTypeNoMutation ==
    (last.op = "setJointConstraints" /\ last.jointtype \notin JointTypes)
    => /\ last.raised
       /\ Old(cons) = pre.cons
       /\ DeclaredType = DeclaredBefore

\* C8: createJoint called with an 'axis' of length zero fails and aborts: no
\* constraint is written to the link and its declared type is not changed.
C8_ZeroLengthAxisAborts ==
    (last.op = "createJoint" /\ last.axis = <<0, 0, 0>>)
    => /\ last.raised
       /\ Old(cons) = pre.cons
       /\ DeclaredType = DeclaredBefore

\* C16: deriveJointType logs the mismatch warning, which names the link,
\* exactly when the joint carries a declared 'joint/type' that differs from the
\* derived type, and returns the derived type in either case.
C16_MismatchWarning ==
    last.op = "deriveJointType"
    => /\ "TypeMismatch" \in log
          <=> (DeclaredBefore # Absent /\ DeclaredBefore # DerivedType(pre.cons))
       /\ last.jtype = DerivedType(pre.cons)

\* C17: deriveJointType with adjust=False leaves the declared 'joint/type' and
\* the constraints as they were; with adjust=True it leaves the constraints as
\* they were and sets the declared 'joint/type' to the derived type it returns,
\* and a call on the joint as it then is logs no warning about the type.
C17_AdjustMode ==
    last.op = "deriveJointType"
    => /\ cons = pre.cons
       /\ ~last.adjust => props = pre.props
       /\ last.adjust
          => /\ props = [pre.props EXCEPT !["joint/type"] = last.jtype]
             /\ deriveJointType(cons, props, FALSE).log = {}
       /\ DeclaredBefore = last.jtype => log \cap {"TypeMismatch", "NoJointType"} = {}

C17_Witness ==
    /\ last.op = "deriveJointType"
    /\ last.adjust
    /\ DeclaredBefore \in JointTypes \ {last.jtype}
    /\ DeclaredType = last.jtype
    /\ cons # <<>>

\* the dictionary is given and lacks 'function' or 'coefficients'
Incomplete(d) == d.given /\ (d.function = Absent \/ d.coefficients = Absent)

\* C18: a setJointConstraints call that is given a maxeffort or maxspeed
\* approximation lacking 'function' or 'coefficients' fails, and writes none of
\* the 'joint/max*_approximation' / 'joint/max*_coefficients' properties.
C18_IncompleteApproximation ==
    (last.op = "setJointConstraints" /\ (Incomplete(last.effort) \/ Incomplete(last.speed)))
    => /\ last.raised
       /\ \A k \in ApproxKeys : props[k] = pre.props[k]

\* a translation / rotation constraint as the builder leaves it
Location(usemin, usemax, mn, mx) ==
    [type |-> "LIMIT_LOCATION", use_min |-> usemin, use_max |-> usemax,
     use_limit |-> AllFalse, min |-> mn, max |-> mx, born |-> "new"]

Rotation(uselimit, mn, mx) ==
    [type |-> "LIMIT_ROTATION", use_min |-> AllFalse, use_max |-> AllFalse,
     use_limit |-> uselimit, min |-> mn, max |-> mx, born |-> "new"]

LockedLocation == Location(AllTrue, AllTrue, Zero3, Zero3)
LockedRotation == Rotation(AllTrue, Zero3, Zero3)

\* the canonical constraint set of each joint type
CanonicalShape(t, lower, upper) ==
    CASE t = "fixed" -> <<LockedLocation, LockedRotation>>
      [] t = "revolute" ->
            <<LockedLocation, Rotation(AllTrue, <<0, lower, 0>>, <<0, upper, 0>>)>>
      [] t = "continuous" ->
            <<LockedLocation, Rotation(<<TRUE, FALSE, TRUE>>, Zero3, Zero3)>>
      [] t = "prismatic" ->
            <<IF lower = upper
              THEN Location(<<TRUE, FALSE, TRUE>>, <<TRUE, FALSE, TRUE>>, Zero3, Zero3)
              ELSE Location(AllTrue, AllTrue, <<0, lower, 0>>, <<0, upper, 0>>),
              LockedRotation>>
      [] t = "planar" ->
            <<Location(<<FALSE, TRUE, FALSE>>, <<FALSE, TRUE, FALSE>>, Zero3, Zero3),
              LockedRotation>>
      [] t = "floating" -> <<>>

\* C19: setJointConstraints(joint, t, lower, upper) on a link with no prior
\* constraints leaves exactly the canonical constraints of t: fixed locks all
\* translation and rotation; revolute locks all translation, rotation x,z at
\* [0,0], y at [lower, upper]; continuous the same with rotation y not limited;
\* prismatic locks translation x,z and all rotation, translation y being
\* [lower, upper] when lower # upper and free when lower = upper; planar locks
\* translation y only and all rotation; floating leaves no constraint.
C19_CanonicalShapes ==
    (/\ last.op = "setJointConstraints"
     /\ phobostype = "link"
     /\ last.jointtype \in JointTypes
     /\ pre.cons = <<>>)
    => cons = CanonicalShape(last.jointtype, last.lower, last.upper)

C19_Witness ==
    /\ last.op = "setJointConstraints"
    /\ phobostype = "link"
    /\ last.jointtype = "continuous"
    /\ pre.cons = <<>>
    /\ DeclaredBefore = "floating"
    /\ Len(cons) = 2
    /\ ~cons[2].use_limit[2]

\* the translation axes that are locked / not locked
LockedAxes(cs) ==
    {i \in Axes : IsLocked(getJointConstraint(cs, "LIMIT_LOCATION"), i)}

LocationRange(cs, i) ==
    <<getJointConstraint(cs, "LIMIT_LOCATION").min[i],
      getJointConstraint(cs, "LIMIT_LOCATION").max[i]>>

\* C20: for a constraint set that deriveJointType classifies as prismatic,
\* getJointConstraints returns the (min, max) of the one translation axis that
\* is not locked when exactly two translation axes are locked, and fails
\* otherwise; the limits it returns are never those of a locked axis.
C20_PrismaticExtraction ==
    (last.op = "getJointConstraints" /\ DerivedType(cons) = "prismatic")
    => /\ NLoc(cons) = 2
          => /\ ~last.raised
             /\ last.raxis = bone
             /\ \A i \in Axes \ LockedAxes(cons) : last.limits = LocationRange(cons, i)
       /\ NLoc(cons) # 2 => last.raised
       /\ ~last.raised => \E i \in Axes \ LockedAxes(cons) : last.limits = LocationRange(cons, i)

C20_Witness ==
    /\ last.op = "getJointConstraints"
    /\ DerivedType(cons) = "prismatic"
    /\ LockedAxes(cons) = {1, 3}
    /\ ~last.raised
    /\ last.limits = <<-2, 2>>

UnitVector(i) == [k \in 1 .. 3 |-> IF k = i THEN 1 ELSE 0]

\* C21: for a constraint set that deriveJointType classifies as planar,
\* getJointConstraints returns, when exactly one translation axis is locked,
\* the unit vector of that axis as axis and as limits the (min, max) of the two
\* other axes in x, y, z order; it fails otherwise; the limits it returns
\* always hold two ranges.
C21_PlanarExtraction ==
    (last.op = "getJointConstraints" /\ DerivedType(cons) = "planar")
    => /\ NLoc(cons) = 1
          => /\ ~last.raised
             /\ \A i \in LockedAxes(cons) :
                  /\ last.raxis = UnitVector(i)
                  /\ \A j, k \in Axes \ {i} :
                       j < k => last.limits = LocationRange(cons, j) \o LocationRange(cons, k)
       /\ NLoc(cons) # 1 => last.raised
       /\ ~last.raised => Len(last.limits) = 4

C21_Witness ==
    /\ last.op = "getJointConstraints"
    /\ DerivedType(cons) = "planar"
    /\ LockedAxes(cons) = {2}
    /\ ~last.raised
    /\ last.raxis = <<0, 1, 0>>
    /\ last.limits = <<-1, 1, -3, 3>>

\* the most recent builder call asked for one of the six types, with
\* lower < upper where the type has limits
LastBuild ==
    /\ phobostype = "link"
    /\ last.jointtype \in JointTypes
    /\ last.jointtype \in {"revolute", "prismatic"} => last.lower < last.upper

\* C23: after any sequence of setJointConstraints calls on one link object,
\* deriveJointType returns the type the most recent call asked for.
C23_NoLeakAcrossBuilds ==
    /\ (last.op = "setJointConstraints" /\ LastBuild)
       => deriveJointType(cons, props, FALSE).jtype = last.jointtype
    /\ (last.op = "deriveJointType" /\ LastBuild)
       => last.jtype = last.jointtype

C23_Witness ==
    /\ last.op = "setJointConstraints"
    /\ LastBuild
    /\ last.jointtype = "floating"
    /\ DeclaredBefore = "prismatic"
    /\ Len(pre.cons) = 2
    /\ ~IsLocked(pre.cons[1], 2)
    /\ cons = <<>>

\* C26: deriveJointType and getJointConstraints both take a translation axis
\* as locked exactly when its minimum is enabled, its maximum is enabled and
\* min = max, so that both count the same number of locked translation axes.
C26_LockedTestAgrees ==
    (last.op \in {"deriveJointType", "getJointConstraints"}
     /\ hasConstraint(cons, "LIMIT_LOCATION"))
    => LET c == getJointConstraint(cons, "LIMIT_LOCATION")
       IN  /\ \A i \in Axes : ClassifierLocked(c)[i] <=> IsLocked(c, i)
           /\ \A i \in Axes : ExtractorLocked(c)[i] <=> IsLocked(c, i)
           /\ Sum3(ClassifierLocked(c)) = Sum3(ExtractorLocked(c))

\* C27: after setJointConstraints(joint, t, spring=s, damping=d) with t
\* revolute or prismatic, whatever s and d (zero included) and whatever builds
\* came before, 'joint/dynamics/springStiffness' holds s and
\* 'joint/dynamics/springDamping' holds d.
C27_SpringMetadataCurrent ==
    (/\ last.op = "setJointConstraints"
     /\ phobostype = "link"
     /\ last.jointtype \in {"revolute", "prismatic"})
    => /\ props["joint/dynamics/springStiffness"] = <<last.spring>>
       /\ props["joint/dynamics/springDamping"] = <<last.damping>>

\* what deriveJointType makes of a revolute joint built with lower = upper
DegenerateType(lower) == IF lower = 0 THEN "fixed" ELSE "revolute"

BuiltDegenerate ==
    /\ phobostype = "link"
    /\ last.jointtype = "revolute"
    /\ last.lower = last.upper

\* C30: after setJointConstraints(joint, 'revolute', lower, upper) with
\* lower = upper = 0 the declared 'joint/type' is 'revolute' and deriveJointType
\* classifies the constraints as fixed; with lower = upper # 0 it classifies
\* them as revolute.
C30_RevoluteDegenerates ==
    /\ (last.op = "setJointConstraints" /\ BuiltDegenerate)
       => /\ DeclaredType = "revolute"
          /\ DerivedType(cons) = DegenerateType(last.lower)
    /\ (last.op = "deriveJointType" /\ BuiltDegenerate)
       => last.jtype = DegenerateType(last.lower)

C30_Witness ==
    /\ last.op = "deriveJointType"
    /\ BuiltDegenerate
    /\ last.lower = 0
    /\ DeclaredBefore = "revolute"
    /\ last.jtype = "fixed"
    /\ "TypeMismatch" \in log

-----------------------------------------------------------------------------
(* Properties of restructureKinematicTree *)

\* the objects from obj up to its topmost ancestor, in that order
RECURSIVE PathUp(_, _)
PathUp(par, obj) == IF par[obj] = Null THEN <<obj>> ELSE <<obj>> \o PathUp(par, par[obj])

\* the chain [link, a1, ..., root]: link, its link-typed ancestors below the
\* root, and the root
ChainOf(par, pty, link) ==
    LET path == PathUp(par, link)
        Keep(n) == n = link \/ n = path[Len(path)] \/ pty[n] = "link"
    IN  SelectSeq(path, Keep)

\* C9: a call in which a detach or re-attach step fails leaves the parent
\* relation exactly as it was before the call; any other call leaves the whole
\* chain re-attached.
C9_AtomicReroot ==
    /\ rk.pc = "failed" => parent = rk.before
    /\ rk.pc = "done" => parent = Restructured(rk.before, ptype, rk.link)

\* the tree of the docstring, A .. F numbered 1 .. 6, and what rerooting it
\* at C must give: C->{A,F}, A->B, B->{D,E}
ExampleBefore == <<Null, 1, 1, 2, 2, 3>>
ExampleAfter == <<3, 1, Null, 2, 2, 3>>
ExampleTypes == [n \in DOMAIN ExampleBefore |-> "link"]

\* C10: after restructureKinematicTree(link) on a link that is not the root,
\* link has no parent, every element of the chain [link, a1, ..., root] of its
\* link-typed ancestors has the previous element as parent, and every object
\* outside the chain keeps the parent it had; the docstring's tree rerooted at
\* C becomes C->{A,F}, A->B, B->{D,E}.
C10_RerootResult ==
    /\ (rk.pc = "done" /\ rk.before[rk.link] # Null)
       => LET chain == ChainOf(rk.before, ptype, rk.link)
          IN  /\ parent[rk.link] = Null
              /\ \A i \in 2 .. Len(chain) : parent[chain[i]] = chain[i - 1]
              /\ \A n \in Nodes \ Range(chain) : parent[n] = rk.before[n]
              /\ parent = Restructured(rk.before, ptype, rk.link)
    /\ Restructured(ExampleBefore, ExampleTypes, 3) = ExampleAfter

C10_Witness ==
    /\ rk.pc = "done"
    /\ rk.before[rk.link] # Null
    /\ Len(rk.links) = 3
    /\ \E n \in Nodes \ Range(rk.links) :
         /\ ptype[n] # "link"
         /\ rk.before[rk.link] = n
         /\ parent[n] = rk.before[n]
    /\ parent[rk.root] # Null

\* C11: restructureKinematicTree called with a link that has no parent changes
\* no object's parent and moves no 'modelname' or 'version' property.
C11_RootRerootNoOp ==
    (rk.pc = "done" /\ rk.before[rk.link] = Null)
    => /\ parent = rk.before
       /\ meta = rk.metabefore

C11_Witness ==
    /\ rk.pc = "done"
    /\ rk.before[rk.link] = Null
    /\ meta[rk.link].modelname # Absent
    /\ \E n \in Nodes : parent[n] = rk.link

\* C12: every object's world pose after restructureKinematicTree equals its
\* world pose before the call, and when a tree rooted at A is rerooted to B and
\* then back to A every object's world pose is the original one.
C12_PoseInvariance ==
    /\ rk.pc = "done" => WorldOf(parent, matrix) = rk.worldbefore
    /\ (rk.pc = "done" /\ rk.n = 2 /\ rk.first.parent[rk.link] = Null)
       => WorldOf(parent, matrix) = rk.first.world

C12_Witness ==
    /\ rk.pc = "done"
    /\ rk.n = 2
    /\ rk.first.parent[rk.link] = Null
    /\ rk.before[rk.link] # Null
    /\ Len(rk.links) = 3
    /\ \E n \in Nodes : matrix[n] # rk.worldbefore[n]

MetaKeys == {"modelname", "version"}

Carriers(key) == {n \in Nodes : meta[n][key] # Absent}

\* C13: after restructureKinematicTree(link) on a link that is not the root, the
\* 'modelname' and 'version' the old root carried are on link with the same
\* values and absent from the old root; between calls exactly one object
\* carries 'modelname', and that object has no parent.
C13_MetadataFollowsRoot ==
    /\ (rk.pc = "done" /\ rk.before[rk.link] # Null)
       => \A key \in MetaKeys :
             rk.metabefore[rk.root][key] # Absent
             => /\ meta[rk.link][key] = rk.metabefore[rk.root][key]
                /\ meta[rk.root][key] = Absent
    /\ rk.pc \in {"idle", "done"}
       => /\ Cardinality(Carriers("modelname")) = 1
          /\ \A n \in Carriers("modelname") : parent[n] = Null

C13_Witness ==
    /\ rk.pc = "done"
    /\ rk.n = 2
    /\ rk.before[rk.link] # Null
    /\ rk.metabefore[rk.root].version = "1.0"
    /\ rk.first.parent[rk.root] # Null
    /\ meta[rk.link].version = "1.0"

RECURSIVE StrictAncestors(_, _)
StrictAncestors(par, n) ==
    IF par[n] = Null THEN {} ELSE {par[n]} \cup StrictAncestors(par, par[n])

Parentless(par) == {n \in DOMAIN par : par[n] = Null}

\* climbing from n reaches an object without parent within k steps
RECURSIVE ReachesTop(_, _, _)
ReachesTop(par, n, k) ==
    IF par[n] = Null THEN TRUE
    ELSE IF k = 0 THEN FALSE
    ELSE ReachesTop(par, par[n], k - 1)

\* the object the climb from n ends at (n itself after k steps on a cycle)
RECURSIVE TopOf(_, _, _)
TopOf(par, n, k) ==
    IF par[n] = Null \/ k = 0 THEN n ELSE TopOf(par, par[n], k - 1)

Acyclic(par) == \A n \in DOMAIN par : ReachesTop(par, n, NumNodes)

Connected(par) == \A m, n \in DOMAIN par : TopOf(par, m, NumNodes) = TopOf(par, n, NumNodes)

\* C24: starting from a tree with one parentless object, after any sequence of
\* restructureKinematicTree(link) calls the parent relation is acyclic and
\* connected over the same objects, with exactly one parentless object: the
\* link of the last call that changed anything.
C24_TreeInvariant ==
    /\ rk.pc \in {"idle", "done"}
       => /\ DOMAIN parent = Nodes
          /\ Acyclic(parent)
          /\ Connected(parent)
          /\ Cardinality(Parentless(parent)) = 1
    /\ rk.pc = "done" => Parentless(parent) = {rk.link}

C24_Witness ==
    /\ rk.pc = "done"
    /\ rk.n = 2
    /\ rk.before[rk.link] # Null
    /\ Len(rk.links) = 2
    /\ ptype[rk.before[rk.link]] # "link"
    /\ rk.first.parent # rk.before
    /\ Parentless(parent) = {rk.link}

\* C25: in every intermediate state of restructureKinematicTree each object
\* other than the new root and the old root has a parent, and fewer than
\* three objects are parentless.
C25_NoOrphanMidOperation ==
    rk.pc \in {"clear", "set"}
    => /\ \A n \in Nodes \ {rk.link, rk.root} : parent[n] # Null
       /\ Cardinality(Parentless(parent)) < 3

\* the link of the first of two calls: the root the second call found
FirstLink == CHOOSE n \in Nodes : rk.before[n] = Null

ThereAndBack ==
    /\ rk.pc = "done"
    /\ rk.n = 2
    /\ rk.first.parent[rk.link] = Null

\* the objects strictly between x and the root r of the original tree
Between(x, r) == StrictAncestors(rk.first.parent, x) \ {r}

\* C28: restructureKinematicTree(X) followed by restructureKinematicTree(R), R
\* the original root, gives every object the parent it had originally, also
\* when objects that are not links lie on the path from X to R.
C28_ThereAndBack_Original ==
    ThereAndBack => parent = rk.first.parent

\* C28 amended: restructureKinematicTree(X) followed by
\* restructureKinematicTree(R), R the original root, gives every object the
\* parent it had originally when every object strictly between X and R is a
\* link; an object on that path that is not a link is left out of the chain,
\* and X ends up under the nearest link above it instead.
C28_ThereAndBack ==
    /\ (ThereAndBack /\ \A n \in Between(FirstLink, rk.link) : ptype[n] = "link")
       => parent = rk.first.parent
    /\ (ThereAndBack /\ FirstLink # rk.link /\ rk.first.parent[FirstLink] # rk.link
                     /\ ptype[rk.first.parent[FirstLink]] # "link")
       => parent[FirstLink] # rk.first.parent[FirstLink]

C28_Witness ==
    /\ ThereAndBack
    /\ Cardinality(Between(FirstLink, rk.link)) = 2
    /\ \A n \in Between(FirstLink, rk.link) : ptype[n] = "link"
    /\ \E n \in Nodes : ptype[n] # "link"
    /\ parent = rk.first.parent

-----------------------------------------------------------------------------
(* Properties of removeSubmodel *)

\* C22: removeSubmodel returns True exactly when the call removed at least
\* one group, the submodel group or the interface group, and False when it
\* removed none.
C22_RemoveSubmodelResult ==
    removed.submodeltype # None
    => (removed.result <=> groups # removed.before)

-----------------------------------------------------------------------------
(* Properties of getNearestCommonParent *)

Called == ncp.called

\* the objects that are a strict ancestor of every object of the list
CommonAncestors(par, objs) ==
    {a \in DOMAIN par : \A i \in DOMAIN objs : a \in StrictAncestors(par, objs[i])}

\* C14: the ancestor getNearestCommonParent returns is a strict ancestor of
\* every input object and no strict descendant of it is one; the result is
\* None exactly when no object is a strict ancestor of all input objects.
C14_LowestCommonAncestor ==
    Called =>
      LET common == CommonAncestors(parent, ncp.objs)
          res == ncp.result
      IN  /\ res.found <=> common # {}
          /\ res.found
             => /\ res.ancestor \in common
                /\ \A c \in common : res.ancestor \notin StrictAncestors(parent, c)

C14_Witness ==
    /\ Called
    /\ ncp.result.found
    /\ Len(ncp.objs) = 3
    /\ ncp.result.ancestor # parent[ncp.objs[1]]
    /\ \E i, j \in DOMAIN ncp.objs :
         /\ ncp.objs[i] \notin StrictAncestors(parent, ncp.objs[j]) \cup {ncp.objs[j]}
         /\ ncp.objs[j] \notin StrictAncestors(parent, ncp.objs[i]) \cup {ncp.objs[i]}

\* the lists with the same elements in another order
Reorderings(objs) ==
    {[i \in DOMAIN objs |-> objs[f[i]]] :
        f \in {g \in [DOMAIN objs -> DOMAIN objs] : \A i \in DOMAIN objs : \E j \in DOMAIN objs : g[j] = i}}

\* C29: getNearestCommonParent gives the same result, the same ancestor and the
\* same set of intermediates, or None, for every order of the list.
C29_OrderIndependence ==
    Called => \A perm \in Reorderings(ncp.objs) :
                 getNearestCommonParent(parent, perm) = ncp.result

\* the tree A->{B,C}, B->{D,E}, C->F, with A .. F numbered 1 .. 6
CommonExample == <<Null, 1, 1, 2, 2, 3>>

\* C15: every object in the returned intermediates is a strict descendant of
\* the returned ancestor and an ancestor of at least one input object, and
\* every object strictly between an input object and the ancestor is in the
\* intermediates; in the tree A->{B,C}, B->{D,E}, C->F, [D,F] gives (A, {B,C})
\* and [D,E] gives (B, {}).
C15_IntermediatesOnPaths ==
    /\ (Called /\ ncp.result.found)
       => LET res == ncp.result
              objs == Range(ncp.objs)
          IN  /\ \A n \in res.inter :
                   /\ res.ancestor \in StrictAncestors(parent, n)
                   /\ \E o \in objs : n \in StrictAncestors(parent, o) \cup {o}
              /\ \A o \in objs : \A n \in StrictAncestors(parent, o) :
                   res.ancestor \in StrictAncestors(parent, n) => n \in res.inter
    /\ getNearestCommonParent(CommonExample, <<4, 6>>)
         = [found |-> TRUE, ancestor |-> 1, inter |-> {2, 3}]
    /\ getNearestCommonParent(CommonExample, <<4, 5>>)
         = [found |-> TRUE, ancestor |-> 2, inter |-> {}]

====
